---- MODULE Spec2Model ----
(***************************************************************************)
(* Practice tracker of the language-learning application: the handlers of  *)
(* /api/practice/record, /api/practice/stats and /api/practice/history     *)
(* (main.py) over the users, sessions, practice_records and daily_streaks  *)
(* tables (database.py), with the session lookup that authenticates a      *)
(* request. Requests are served one at a time (Spec, SpecRead,             *)
(* SpecScenario) or, as by several worker processes on one database, query  *)
(* by query (SpecRace).                                                     *)
(*                                                                         *)
(* Time is counted in whole days: date.today(), datetime.now() and         *)
(* datetime.utcnow() all read the one clock `today`.                       *)
(***************************************************************************)
EXTENDS Integers, FiniteSets, Sequences, TLC

VARIABLES users, sessions, practice_records, daily_streaks, today, requests,
          last, reply, inflight, unique_in_force, payments, posts,
          post_likes, post_likes_id_seq, issued

vars == <<users, sessions, practice_records, daily_streaks, today, requests,
          last, reply, inflight, unique_in_force, payments, posts,
          post_likes, post_likes_id_seq, issued>>

-----------------------------------------------------------------------------
(* Bounds of the model *)

\* day of the first request
StartDay == 2
\* last day the clock reaches
MaxDay == 4
\* number of requests served in a run
MaxRequests == 2
\* how far above a quota the rows already stored for today may go
MaxOver == 1

-----------------------------------------------------------------------------
(* Program constants *)

\* Python None / SQL NULL in a nullable integer or date column
NULL == -1

FreeDailySentences == 10
BasicDailySentences == 50
\* "daily_sentences": -1 means unlimited
Unlimited == -1

Tiers == {"free", "basic", "premium", "lifetime"}

SUBSCRIPTION_LIMITS ==
  [t \in Tiers |->
     [daily_sentences |->
        CASE t = "free" -> FreeDailySentences
          [] t = "basic" -> BasicDailySentences
          [] t = "premium" -> Unlimited
          [] t = "lifetime" -> Unlimited]]

\* attributes of the mapped class PracticeRecord
PracticeRecordAttributes ==
  {"id", "user_id", "sentence_id", "user_answer", "practice_date",
   "practice_count", "mastery_level", "next_review_date", "is_mastered",
   "is_bookmarked", "created_at", "updated_at", "user", "sentence"}

\* attributes of the mapped class DailyStreak
DailyStreakAttributes ==
  {"id", "user_id", "current_streak", "longest_streak", "last_practice_date",
   "total_practice_days", "total_sentences_practiced", "user"}

\* Mutant of NewRecordKwargs: the call without completed=True.
NewRecordKwargs_mapped == {"user_id", "sentence_id", "practice_date"}

\* keyword arguments record_practice passes to DBPracticeRecord(...)
NewRecordKwargs == {"user_id", "sentence_id", "practice_date", "completed"}

\* keyword arguments record_practice passes to DBDailyStreak(...)
NewStreakKwargs == {"user_id"}

\* Mutant of DeclarativeConstructorOk: a constructor that takes any keyword.
DeclarativeConstructorAny(attributes, kwargs) == TRUE

\* Base = declarative_base(): the default constructor of a mapped class
\* raises TypeError for a keyword that is no attribute of the class.
DeclarativeConstructorOk(attributes, kwargs) == kwargs \subseteq attributes

-----------------------------------------------------------------------------
(* The world the requests come from *)

Users == {1, 2}
Tokens == {"t1", "t2"}
\* "none": the request carries no session_token cookie; "t0": a token no
\* session row holds
Cookies == Tokens \cup {"none", "t0"}

\* a sentence stored for every pre-existing day, and two never stored before
NewSentenceA == BasicDailySentences + MaxOver + 1
NewSentenceB == NewSentenceA + 1
RequestSentences == {1, NewSentenceA, NewSentenceB}

Max(S) == CHOOSE x \in S : \A y \in S : y <= x

-----------------------------------------------------------------------------
(* Authentication: get_session, get_current_user *)

NoSession == [token |-> "none", user_id |-> NULL, expires_at |-> NULL]

\* Mutant of get_session: an expired session is left in the table.
get_session_keeps_expired(sess, session_token, now) ==
  LET found == {x \in sess : x.token = session_token /\ x.expires_at > now}
  IN [session |-> IF found = {} THEN NoSession ELSE CHOOSE x \in found : TRUE,
      sessions |-> sess]

\* get_session: the session of the token if it has not expired; an expired
\* session is deleted (and the deletion committed) by the lookup.
get_session(sess, session_token, now) ==
  IF session_token = "none"
  THEN [session |-> NoSession, sessions |-> sess]
  ELSE LET found == {x \in sess : x.token = session_token}
       IN IF found = {}
          THEN [session |-> NoSession, sessions |-> sess]
          ELSE LET session == CHOOSE x \in found : TRUE
               IN IF session.expires_at > now
                  THEN [session |-> session, sessions |-> sess]
                  ELSE [session |-> NoSession, sessions |-> sess \ {session}]

\* get_current_user: the id of the logged-in user, NULL when there is none
get_current_user(sess, cookie, now) ==
  LET got == get_session(sess, cookie, now)
  IN [user_id |-> got.session.user_id, sessions |-> got.sessions]

-----------------------------------------------------------------------------
(* Subscription tier *)

\* Mutant of current_tier: the stored tier is taken whatever its expiry.
current_tier_stored(user, now) ==
  IF user.lifetime_member THEN "lifetime" ELSE user.subscription_tier

\* User.current_tier
current_tier(user, now) ==
  IF user.lifetime_member THEN "lifetime"
  ELSE IF user.subscription_expires_at /= NULL
          /\ user.subscription_expires_at > now
       THEN user.subscription_tier
       ELSE "free"

-----------------------------------------------------------------------------
(* record_practice *)

\* Mutant of LimitApplies: every limit but 0 is taken as finite.
LimitApplies_nonzero(daily_limit) == daily_limit /= 0

\* if daily_limit > 0:  # -1 means unlimited
LimitApplies(daily_limit) == daily_limit > 0

\* Mutant of today_count: the count without the filter on user_id.
today_count_all_users(records, user_id, day) ==
  Cardinality({r \in records : r.practice_date = day})

\* count of the user's practice records of the day
today_count(records, user_id, day) ==
  Cardinality({r \in records : r.user_id = user_id /\ r.practice_date = day})

\* Mutant of LimitReached: the limit is reached one record late.
LimitReached_late(count, daily_limit) == count > daily_limit

\* if today_count >= daily_limit: raise HTTPException(403)
LimitReached(count, daily_limit) == count >= daily_limit

\* Mutant of existing: the lookup filters on the record's id instead of its
\* sentence_id.
existing_by_id(records, user_id, sentence_id, day) ==
  {r \in records : /\ r.user_id = user_id
                   /\ r.id = sentence_id
                   /\ r.practice_date = day}

\* the records matching (user, sentence, today): the dedup lookup
existing(records, user_id, sentence_id, day) ==
  {r \in records : /\ r.user_id = user_id
                   /\ r.sentence_id = sentence_id
                   /\ r.practice_date = day}

\* id SERIAL PRIMARY KEY: a fresh id
NextId(records) ==
  IF records = {} THEN 1 ELSE Max({r.id : r \in records}) + 1

\* DBDailyStreak(user_id=user.id): Column(default=0) is applied by the INSERT,
\* not by the constructor, so every counter of the new object reads None.
NewDailyStreak(user_id) ==
  [user_id |-> user_id,
   current_streak |-> NULL,
   longest_streak |-> NULL,
   last_practice_date |-> NULL,
   total_practice_days |-> NULL,
   total_sentences_practiced |-> NULL]

\* The streak statistics block. ok is FALSE when an operand of += or > is
\* None (Python raises TypeError).
UpdateStreak(streak, day) ==
  IF streak.total_sentences_practiced = NULL
  THEN [ok |-> FALSE, streak |-> streak]
  ELSE
    LET s1 == [streak EXCEPT !.total_sentences_practiced = @ + 1]
    IN IF s1.last_practice_date = day
       THEN [ok |-> TRUE, streak |-> s1]
       ELSE IF s1.total_practice_days = NULL
       THEN [ok |-> FALSE, streak |-> streak]
       ELSE
         LET s2 == [s1 EXCEPT !.total_practice_days = @ + 1]
             days_diff == day - s2.last_practice_date
             s3 == IF s2.last_practice_date /= NULL
                   THEN IF days_diff = 1
                        THEN [s2 EXCEPT !.current_streak = @ + 1]
                        ELSE IF days_diff > 1
                        THEN [s2 EXCEPT !.current_streak = 1]
                        ELSE s2
                   ELSE [s2 EXCEPT !.current_streak = 1]
         IN IF s3.current_streak = NULL \/ s3.longest_streak = NULL
            THEN [ok |-> FALSE, streak |-> streak]
            ELSE
              LET s4 == IF s3.current_streak > s3.longest_streak
                        THEN [s3 EXCEPT !.longest_streak = s3.current_streak]
                        ELSE s3
              IN [ok |-> TRUE,
                  streak |-> [s4 EXCEPT !.last_practice_date = day]]

\* A response: the status code and, for 403, the detail payload.
Response(status, limit_reached, daily_limit) ==
  [status |-> status, limit_reached |-> limit_reached,
   daily_limit |-> daily_limit]

\* The handler past authentication as it runs once DBPracticeRecord(...) takes
\* its keywords, with the quota test and the streak block given as arguments:
\* the common part of the mutants of practice_of_user.
practice_as(db, user_id, sentence_id, now, Reached(_, _), Update(_, _)) ==
  LET user == db.users[user_id]
      tier == current_tier(user, now)
      daily_limit == SUBSCRIPTION_LIMITS[tier].daily_sentences
      found == {s \in db.daily_streaks : s.user_id = user_id}
      streak == IF found = {} THEN NewDailyStreak(user_id)
                ELSE CHOOSE s \in found : TRUE
      upd == Update(streak, now)
      new_record == [id |-> NextId(db.practice_records),
                     user_id |-> user_id,
                     sentence_id |-> sentence_id,
                     practice_date |-> now]
  IN
  IF /\ LimitApplies(daily_limit)
     /\ Reached(today_count(db.practice_records, user_id, now), daily_limit)
  THEN [db |-> db, response |-> Response(403, TRUE, daily_limit)]
  ELSE IF existing(db.practice_records, user_id, sentence_id, now) /= {}
  THEN [db |-> db, response |-> Response(200, FALSE, 0)]
  ELSE IF ~upd.ok
  THEN [db |-> db, response |-> Response(500, FALSE, 0)]
  ELSE [db |-> [db EXCEPT
                 !.practice_records = @ \cup {new_record},
                 !.daily_streaks = (@ \ found) \cup {upd.streak}],
        response |-> Response(200, FALSE, 0)]

\* The streak block with `streak.longest_streak = streak.current_streak` run
\* without its test.
UpdateStreak_longest_follows(streak, day) ==
  LET upd == UpdateStreak(streak, day)
  IN IF upd.ok /\ streak.last_practice_date /= day
     THEN [upd EXCEPT !.streak.longest_streak = upd.streak.current_streak]
     ELSE upd

\* The streak block without its "Update longest streak" lines.
UpdateStreak_longest_stale(streak, day) ==
  LET upd == UpdateStreak(streak, day)
  IN IF upd.ok
     THEN [upd EXCEPT !.streak.longest_streak = streak.longest_streak]
     ELSE upd

\* Mutant of practice_of_user: the record is inserted, and the longest streak
\* is overwritten with the current one on every new day.
practice_of_user_longest_follows(db, user_id, sentence_id, now) ==
  practice_as(db, user_id, sentence_id, now, LimitReached,
              UpdateStreak_longest_follows)

\* Mutant of practice_of_user: the record is inserted, and the longest streak
\* is never raised.
practice_of_user_longest_stale(db, user_id, sentence_id, now) ==
  practice_as(db, user_id, sentence_id, now, LimitReached,
              UpdateStreak_longest_stale)

\* The streak block with `streak.total_practice_days += 1` moved out of the
\* new-day test.
UpdateStreak_days_every_call(streak, day) ==
  LET upd == UpdateStreak(streak, day)
  IN IF upd.ok /\ streak.last_practice_date = day
     THEN [upd EXCEPT !.streak.total_practice_days = @ + 1]
     ELSE upd

\* Mutant of practice_of_user: the record is inserted, and every inserted
\* record counts as a day of practice.
practice_of_user_days_every_call(db, user_id, sentence_id, now) ==
  practice_as(db, user_id, sentence_id, now, LimitReached,
              UpdateStreak_days_every_call)

\* Mutant of practice_of_user: the record is inserted, and
\* `streak.total_sentences_practiced += 1` runs for a repeat as well.
practice_of_user_counts_repeats(db, user_id, sentence_id, now) ==
  LET out == practice_as(db, user_id, sentence_id, now, LimitReached,
                         UpdateStreak)
  IN IF /\ out.response.status = 200
        /\ existing(db.practice_records, user_id, sentence_id, now) /= {}
     THEN [out EXCEPT !.db.daily_streaks =
             {IF s.user_id = user_id
              THEN [s EXCEPT !.total_sentences_practiced = @ + 1]
              ELSE s : s \in @}]
     ELSE out

\* Mutant of practice_of_user: the record is inserted, and the quota is taken
\* as reached one record late.
practice_of_user_late_limit(db, user_id, sentence_id, now) ==
  practice_as(db, user_id, sentence_id, now, LimitReached_late, UpdateStreak)

\* The handler past authentication, for the logged-in user: quota check,
\* dedup lookup, new record, streak update, commit. It gives the database the
\* request leaves and the response. A request that raises leaves what was
\* committed before the raise: get_db closes the session, which discards the
\* pending objects.
practice_of_user(db, user_id, sentence_id, now) ==
  LET user == db.users[user_id]
      tier == current_tier(user, now)
      daily_limit == SUBSCRIPTION_LIMITS[tier].daily_sentences
  IN
  IF /\ LimitApplies(daily_limit)
     /\ LimitReached(today_count(db.practice_records, user_id, now),
                     daily_limit)
  THEN [db |-> db, response |-> Response(403, TRUE, daily_limit)]
  ELSE IF existing(db.practice_records, user_id, sentence_id, now) /= {}
  THEN [db |-> db, response |-> Response(200, FALSE, 0)]
  ELSE IF ~DeclarativeConstructorOk(PracticeRecordAttributes, NewRecordKwargs)
  THEN [db |-> db, response |-> Response(500, FALSE, 0)]
  ELSE
    LET new_record == [id |-> NextId(db.practice_records),
                       user_id |-> user_id,
                       sentence_id |-> sentence_id,
                       practice_date |-> now]
        found == {s \in db.daily_streaks : s.user_id = user_id}
    IN
    IF found = {} /\ ~DeclarativeConstructorOk(DailyStreakAttributes,
                                                NewStreakKwargs)
    THEN [db |-> db, response |-> Response(500, FALSE, 0)]
    ELSE
      LET streak == IF found = {} THEN NewDailyStreak(user_id)
                    ELSE CHOOSE s \in found : TRUE
          upd == UpdateStreak(streak, now)
      IN
      IF ~upd.ok
      THEN [db |-> db, response |-> Response(500, FALSE, 0)]
      ELSE [db |-> [db EXCEPT
                     !.practice_records = @ \cup {new_record},
                     !.daily_streaks = (@ \ found) \cup {upd.streak}],
            response |-> Response(200, FALSE, 0)]

\* Mutant of record_practice: the counter update of the streak block and its
\* commit are hoisted above the quota check.
record_practice_counts_first(db, cookie, sentence_id, now) ==
  LET auth == get_current_user(db.sessions, cookie, now)
      db1 == [db EXCEPT !.sessions = auth.sessions]
      found == {s \in db.daily_streaks : s.user_id = auth.user_id}
      db2 == [db1 EXCEPT !.daily_streaks =
                {IF s \in found
                 THEN [s EXCEPT !.total_sentences_practiced = @ + 1]
                 ELSE s : s \in @}]
  IN IF auth.user_id = NULL
     THEN [db |-> db1, response |-> Response(401, FALSE, 0)]
     ELSE practice_of_user(db2, auth.user_id, sentence_id, now)

\* Mutant of record_practice: the streak row is created, and the creation
\* committed, before the quota check.
record_practice_streak_first(db, cookie, sentence_id, now) ==
  LET auth == get_current_user(db.sessions, cookie, now)
      db1 == [db EXCEPT !.sessions = auth.sessions]
      found == {s \in db.daily_streaks : s.user_id = auth.user_id}
      created == [user_id |-> auth.user_id, current_streak |-> 0,
                  longest_streak |-> 0, last_practice_date |-> NULL,
                  total_practice_days |-> 0, total_sentences_practiced |-> 0]
      db2 == IF found = {}
             THEN [db1 EXCEPT !.daily_streaks = @ \cup {created}]
             ELSE db1
  IN IF auth.user_id = NULL
     THEN [db |-> db1, response |-> Response(401, FALSE, 0)]
     ELSE practice_of_user(db2, auth.user_id, sentence_id, now)

\* The whole handler: authentication, then the work for the logged-in user.
record_practice(db, cookie, sentence_id, now) ==
  LET auth == get_current_user(db.sessions, cookie, now)
      db1 == [db EXCEPT !.sessions = auth.sessions]
  IN IF auth.user_id = NULL
     THEN [db |-> db1, response |-> Response(401, FALSE, 0)]
     ELSE practice_of_user(db1, auth.user_id, sentence_id, now)

-----------------------------------------------------------------------------
(* record_practice, query by query *)

\* the request has been answered
Answered(req, response) == [req EXCEPT !.pc = "done", !.response = response]

\* UPDATE daily_streaks SET ... WHERE id = ...: the flush writes the columns
\* the session changed since it loaded the row, and leaves the others as the
\* table has them.
flush_streak(current, loaded, streak) ==
  [f \in DOMAIN current |->
     IF streak[f] /= loaded[f] THEN streak[f] ELSE current[f]]

\* One step of a record_practice request: the code from one database round
\* trip up to the next. Each query reads what is committed at that moment
\* (READ COMMITTED); pending objects are in the session only, and flush and
\* commit are one step. unique tells whether practice_records carries
\* UNIQUE(user_id, sentence_id, practice_date). It gives the database and the
\* request after the step.
request_step(db, unique, req, now) ==
  LET user_id == req.user_id
      sentence_id == req.sentence_id
  IN
  CASE req.pc = "auth" ->
         LET auth == get_current_user(db.sessions, req.cookie, now)
             db1 == [db EXCEPT !.sessions = auth.sessions]
         IN IF auth.user_id = NULL
            THEN [db |-> db1, req |-> Answered(req, Response(401, FALSE, 0))]
            ELSE [db |-> db1,
                  req |-> [req EXCEPT !.pc = "quota",
                                      !.user_id = auth.user_id]]
    [] req.pc = "quota" ->
         LET tier == current_tier(db.users[user_id], now)
             daily_limit == SUBSCRIPTION_LIMITS[tier].daily_sentences
         IN IF /\ LimitApplies(daily_limit)
               /\ LimitReached(today_count(db.practice_records, user_id, now),
                               daily_limit)
            THEN [db |-> db,
                  req |-> Answered(req, Response(403, TRUE, daily_limit))]
            ELSE [db |-> db, req |-> [req EXCEPT !.pc = "lookup"]]
    [] req.pc = "lookup" ->
         IF existing(db.practice_records, user_id, sentence_id, now) /= {}
         THEN [db |-> db, req |-> Answered(req, Response(200, FALSE, 0))]
         ELSE IF ~DeclarativeConstructorOk(PracticeRecordAttributes,
                                           NewRecordKwargs)
         THEN [db |-> db, req |-> Answered(req, Response(500, FALSE, 0))]
         ELSE [db |-> db, req |-> [req EXCEPT !.pc = "streak"]]
    [] req.pc = "streak" ->
         LET found == {s \in db.daily_streaks : s.user_id = user_id}
             streak == IF found = {} THEN NewDailyStreak(user_id)
                       ELSE CHOOSE s \in found : TRUE
             upd == UpdateStreak(streak, now)
         IN IF \/ /\ found = {}
                  /\ ~DeclarativeConstructorOk(DailyStreakAttributes,
                                               NewStreakKwargs)
               \/ ~upd.ok
            THEN [db |-> db, req |-> Answered(req, Response(500, FALSE, 0))]
            ELSE [db |-> db,
                  req |-> [req EXCEPT !.pc = "commit", !.loaded = found,
                                      !.streak = upd.streak]]
    [] req.pc = "commit" ->
         LET new_record == [id |-> NextId(db.practice_records),
                            user_id |-> user_id,
                            sentence_id |-> sentence_id,
                            practice_date |-> now]
             current == {s \in db.daily_streaks : s.user_id = user_id}
             loaded == CHOOSE s \in req.loaded : TRUE
             IntegrityError ==
               \/ /\ unique
                  /\ existing(db.practice_records, user_id, sentence_id,
                              now) /= {}
               \/ req.loaded = {} /\ current /= {}
         IN IF IntegrityError
            THEN [db |-> db, req |-> Answered(req, Response(500, FALSE, 0))]
            ELSE [db |->
                    [db EXCEPT
                       !.practice_records = @ \cup {new_record},
                       !.daily_streaks =
                         IF req.loaded = {} THEN @ \cup {req.streak}
                         ELSE {IF s \in current
                               THEN flush_streak(s, loaded, req.streak)
                               ELSE s : s \in @}],
                  req |-> Answered(req, Response(200, FALSE, 0))]

-----------------------------------------------------------------------------
(* get_practice_stats, get_practice_history *)

\* str(date): the ISO form, one string per date
str(day) == [iso |-> day]

\* Mutant of range_6_to_0: range(6, 0, -1)
range_6_to_1 == <<6, 5, 4, 3, 2, 1>>

\* range(6, -1, -1)
range_6_to_0 == <<6, 5, 4, 3, 2, 1, 0>>

\* "Get practice history for last 7 days": one entry per i of the range, for
\* day = today - timedelta(days=i), appended in the order of the range
last_7_days(records, user_id, now) ==
  [k \in 1 .. Len(range_6_to_0) |->
     LET day == now - range_6_to_0[k]
     IN [date |-> str(day), count |-> today_count(records, user_id, day)]]

RECURSIVE sentence_ids_of(_, _)
\* [r[0] for r in today_practiced]: the rows in the order the query gives them
sentence_ids_of(rows, ids) ==
  IF rows = {} THEN ids
  ELSE LET r == CHOOSE x \in rows : TRUE
       IN sentence_ids_of(rows \ {r}, Append(ids, r.sentence_id))

\* no body: the response of an error, or of a request that returns no data
NoReply == [kind |-> "none"]

\* get_practice_stats: the response and its body (total_sentences, a count of
\* the sentences table, and day_name are left out)
get_practice_stats(db, cookie, now) ==
  LET auth == get_current_user(db.sessions, cookie, now)
      db1 == [db EXCEPT !.sessions = auth.sessions]
      found == {s \in db.daily_streaks : s.user_id = auth.user_id}
      streak == CHOOSE s \in found : TRUE
      mine == {r \in db.practice_records :
                 r.user_id = auth.user_id /\ r.practice_date = now}
  IN IF auth.user_id = NULL
     THEN [db |-> db1, response |-> Response(401, FALSE, 0), body |-> NoReply]
     ELSE [db |-> db1, response |-> Response(200, FALSE, 0),
           body |->
             [kind |-> "stats",
              today_date |-> str(now),
              today_practiced |-> today_count(db.practice_records,
                                              auth.user_id, now),
              today_sentence_ids |-> sentence_ids_of(mine, <<>>),
              current_streak |->
                IF found /= {} THEN streak.current_streak ELSE 0,
              longest_streak |->
                IF found /= {} THEN streak.longest_streak ELSE 0,
              total_practice_days |->
                IF found /= {} THEN streak.total_practice_days ELSE 0,
              total_sentences_practiced |->
                IF found /= {} THEN streak.total_sentences_practiced ELSE 0,
              last_7_days |-> last_7_days(db.practice_records, auth.user_id,
                                          now)]]

\* Mutant of start_date: today - timedelta(days=days)
start_date_days_back(now, days) == now - days

\* start_date = today - timedelta(days=days-1)
start_date(now, days) == now - (days - 1)

\* history[date_str]["count"] += 1 and
\* history[date_str]["sentence_ids"].append(record.sentence_id)
tally(history, record) ==
  LET at == CHOOSE k \in 1 .. Len(history) :
              history[k].date = str(record.practice_date)
  IN [history EXCEPT ![at].count = @ + 1,
                     ![at].sentence_ids = Append(@, record.sentence_id)]

RECURSIVE group_by_date(_, _)
\* "Group by date": the loop over the rows, in the order the query gives
\* them; history is the dict as the list of its values, in insertion order
group_by_date(rows, history) ==
  IF rows = {} THEN history
  ELSE
    LET record == CHOOSE x \in rows : TRUE
        date_str == str(record.practice_date)
    IN IF \E k \in 1 .. Len(history) : history[k].date = date_str
       THEN group_by_date(rows \ {record}, tally(history, record))
       ELSE group_by_date(
              rows \ {record},
              tally(Append(history, [date |-> date_str, count |-> 0,
                                     sentence_ids |-> <<>>]),
                    record))

\* get_practice_history: the response and its body
get_practice_history(db, cookie, days, now) ==
  LET auth == get_current_user(db.sessions, cookie, now)
      db1 == [db EXCEPT !.sessions = auth.sessions]
      records == {r \in db.practice_records :
                    /\ r.user_id = auth.user_id
                    /\ r.practice_date >= start_date(now, days)}
  IN IF auth.user_id = NULL
     THEN [db |-> db1, response |-> Response(401, FALSE, 0), body |-> NoReply]
     ELSE [db |-> db1, response |-> Response(200, FALSE, 0),
           body |-> [kind |-> "history",
                     start_date |-> str(start_date(now, days)),
                     end_date |-> str(now),
                     history |-> group_by_date(records, <<>>)]]

-----------------------------------------------------------------------------
(* The database the application starts on *)

\* Mutant of practice_records_unique: the table is created without the
\* constraint.
practice_records_unconstrained(records) == TRUE

\* UNIQUE(user_id, sentence_id, practice_date) of practice_records
practice_records_unique(records) ==
  Cardinality({<<r.user_id, r.sentence_id, r.practice_date>> : r \in records})
    = Cardinality(records)

\* user_id INTEGER NOT NULL UNIQUE of daily_streaks
daily_streaks_unique(streaks) ==
  Cardinality({s.user_id : s \in streaks}) = Cardinality(streaks)

\* The stored users: Free, Basic (paid up), Premium that lapses on the day
\* after StartDay, a lifetime member, Basic that has lapsed on StartDay, and
\* Premium with no expiry set.
UserRows ==
  {[subscription_tier |-> "free", subscription_expires_at |-> NULL,
    lifetime_member |-> FALSE],
   [subscription_tier |-> "basic", subscription_expires_at |-> StartDay,
    lifetime_member |-> FALSE],
   [subscription_tier |-> "premium", subscription_expires_at |-> NULL,
    lifetime_member |-> FALSE],
   [subscription_tier |-> "basic", subscription_expires_at |-> MaxDay + 1,
    lifetime_member |-> FALSE],
   [subscription_tier |-> "premium", subscription_expires_at |-> StartDay + 1,
    lifetime_member |-> FALSE],
   [subscription_tier |-> "lifetime", subscription_expires_at |-> NULL,
    lifetime_member |-> TRUE]}

\* numbers of rows a user may already hold for StartDay: none, one, and
\* around each finite quota
PreCounts ==
  {0, 1} \cup (FreeDailySentences - 1 .. FreeDailySentences + MaxOver)
         \cup (BasicDailySentences - 1 .. BasicDailySentences + MaxOver)

\* earlier days a user may already hold a row for
PastDays == {StartDay - 2, StartDay - 1}

Row(user_id, sentence_id, day, serial) ==
  [id |-> user_id * 10000 + day * 1000 + sentence_id * 2 + serial,
   user_id |-> user_id, sentence_id |-> sentence_id, practice_date |-> day]

\* Rows a stored practice_records table may hold for a user: sentence 1 on
\* each of the past days, sentences 1..n on StartDay, and (twice) a second
\* row for (user, 1, StartDay).
StoredRecords(user_id, past, n, twice) ==
  {Row(user_id, 1, d, 0) : d \in past}
    \cup {Row(user_id, s, StartDay, 0) : s \in 1 .. n}
    \cup (IF twice /\ n > 0 THEN {Row(user_id, 1, StartDay, 1)} ELSE {})

RECURSIVE RunEnding(_, _)
\* length of the run of consecutive days of `days` that ends on day d
RunEnding(days, d) == IF d \in days THEN 1 + RunEnding(days, d - 1) ELSE 0

\* The daily_streaks row that goes with a user's stored records: the
\* counters as the fields of DailyStreak are defined.
StoredStreak(user_id, records) ==
  LET mine == {r \in records : r.user_id = user_id}
      days == {r.practice_date : r \in mine}
  IN IF mine = {} THEN {}
     ELSE {[user_id |-> user_id,
            current_streak |-> RunEnding(days, Max(days)),
            longest_streak |-> Max({RunEnding(days, d) : d \in days}),
            last_practice_date |-> Max(days),
            total_practice_days |-> Cardinality(days),
            total_sentences_practiced |-> Cardinality(mine)]}

\* sessions of earlier logins: t1 of user 1 runs out on MaxDay
StoredSessions ==
  {[token |-> "t1", user_id |-> 1, expires_at |-> MaxDay],
   [token |-> "t2", user_id |-> 2, expires_at |-> MaxDay + 1]}

\* the posts of the community page: post 1, written by user 2, with no like
StoredPosts == {[id |-> 1, author_id |-> 2, likes |-> 0]}

DB == [users |-> users, sessions |-> sessions,
       practice_records |-> practice_records, daily_streaks |-> daily_streaks]

\* no request yet
NoCall(db) ==
  [op |-> "none", cookie |-> "none", sentence_id |-> 0, day |-> 0,
   response |-> Response(0, FALSE, 0), pre |-> db]

\* the requests that may be in flight together
Reqs == {1, 2}

\* a request that has not come in: where it stands (pc), what it carries,
\* the user it runs as, the streak row its session loaded and the row as the
\* session holds it, and the response
Idle ==
  [pc |-> "idle", cookie |-> "none", sentence_id |-> 0, user_id |-> NULL,
   overlaps |-> FALSE, loaded |-> {}, streak |-> NewDailyStreak(NULL),
   response |-> Response(0, FALSE, 0)]

\* days: int = Query(30, ge=1, le=365)
DefaultDays == 30
\* values of the days parameter the requests carry
HistoryDays == {1, 3, DefaultDays}

StoredDatabase ==
  /\ today = StartDay
  /\ \E row1 \in UserRows :
       users = [u \in Users |-> IF u = 1 THEN row1
                                ELSE [subscription_tier |-> "free",
                                      subscription_expires_at |-> NULL,
                                      lifetime_member |-> FALSE]]
  /\ sessions = StoredSessions
  /\ \E past \in SUBSET PastDays, n1 \in PreCounts, n2 \in {0, 1},
        twice \in BOOLEAN :
       /\ practice_records = StoredRecords(1, past, n1, twice)
                               \cup StoredRecords(2, {}, n2, FALSE)
       /\ practice_records_unique(practice_records)
  /\ daily_streaks = UNION {StoredStreak(u, practice_records) : u \in Users}
  /\ daily_streaks_unique(daily_streaks)

Init ==
  /\ StoredDatabase
  /\ requests = 0
  /\ last = NoCall(DB)
  /\ reply = NoReply
  /\ inflight = [r \in Reqs |-> Idle]
  /\ unique_in_force = TRUE
  /\ payments = {}
  /\ posts = StoredPosts
  /\ post_likes = {}
  /\ post_likes_id_seq = 0
  /\ issued = Cardinality(StoredSessions)

-----------------------------------------------------------------------------
(* Requests *)

\* POST /api/practice/record with the given cookie and sentence_id
RecordPractice(cookie, sentence_id) ==
  LET out == record_practice(DB, cookie, sentence_id, today)
  IN /\ requests < MaxRequests
     /\ requests' = requests + 1
     /\ users' = out.db.users
     /\ sessions' = out.db.sessions
     /\ practice_records' = out.db.practice_records
     /\ daily_streaks' = out.db.daily_streaks
     /\ last' = [op |-> "record_practice", cookie |-> cookie,
                 sentence_id |-> sentence_id, day |-> today,
                 response |-> out.response, pre |-> DB]
     /\ reply' = NoReply
     /\ UNCHANGED <<today, inflight, unique_in_force, payments, posts,
                 post_likes, post_likes_id_seq, issued>>

\* GET /api/practice/stats with the given cookie
GetPracticeStats(cookie) ==
  LET out == get_practice_stats(DB, cookie, today)
  IN /\ requests < MaxRequests
     /\ requests' = requests + 1
     /\ users' = out.db.users
     /\ sessions' = out.db.sessions
     /\ practice_records' = out.db.practice_records
     /\ daily_streaks' = out.db.daily_streaks
     /\ last' = [op |-> "get_practice_stats", cookie |-> cookie,
                 sentence_id |-> 0, day |-> today,
                 response |-> out.response, pre |-> DB]
     /\ reply' = out.body
     /\ UNCHANGED <<today, inflight, unique_in_force, payments, posts,
                 post_likes, post_likes_id_seq, issued>>

\* GET /api/practice/history?days=... with the given cookie
GetPracticeHistory(cookie, days) ==
  LET out == get_practice_history(DB, cookie, days, today)
  IN /\ requests < MaxRequests
     /\ requests' = requests + 1
     /\ users' = out.db.users
     /\ sessions' = out.db.sessions
     /\ practice_records' = out.db.practice_records
     /\ daily_streaks' = out.db.daily_streaks
     /\ last' = [op |-> "get_practice_history", cookie |-> cookie,
                 sentence_id |-> 0, days |-> days, day |-> today,
                 response |-> out.response, pre |-> DB]
     /\ reply' = out.body
     /\ UNCHANGED <<today, inflight, unique_in_force, payments, posts,
                 post_likes, post_likes_id_seq, issued>>

\* midnight
Tick ==
  /\ today < MaxDay
  /\ today' = today + 1
  /\ UNCHANGED <<users, sessions, practice_records, daily_streaks, requests,
               last, reply, inflight, unique_in_force, payments, posts,
          post_likes, post_likes_id_seq, issued>>

Next ==
  \/ \E cookie \in Cookies, sentence_id \in RequestSentences :
       RecordPractice(cookie, sentence_id)
  \/ Tick

Spec == Init /\ [][Next]_vars

\* The three handlers together, on the stored databases in which user 1 is
\* below the Free quota for StartDay.
InitRead ==
  /\ Init
  /\ today_count(practice_records, 1, StartDay) < FreeDailySentences

NextRead ==
  \/ Next
  \/ \E cookie \in Cookies : GetPracticeStats(cookie)
  \/ \E cookie \in Cookies, days \in HistoryDays :
       GetPracticeHistory(cookie, days)

SpecRead == InitRead /\ [][NextRead]_vars

\* date.today() is the date of the server's clock: the clock is set back a
\* day, or the request is served where it is still the day before.
ClockBack ==
  /\ today > StartDay - 1
  /\ today' = today - 1
  /\ UNCHANGED <<users, sessions, practice_records, daily_streaks, requests,
                 last, reply, inflight, unique_in_force, payments, posts,
          post_likes, post_likes_id_seq, issued>>

NextSkew == Next \/ ClockBack

\* record_practice under a clock that also runs backward
SpecSkew == InitRead /\ [][NextSkew]_vars

\* The scenario of a Free user with no prior activity: user 2, logged in with
\* token t2, beside whatever user 1 has stored. requests counts the calls of
\* the scenario: sentences 1 .. 10 and then 11 on StartDay, midnight, and
\* sentence 1 again on the next day.
InitScenario ==
  /\ Init
  /\ \A r \in practice_records : r.user_id /= 2

ScenarioRecord ==
  LET sentence_id == IF requests <= FreeDailySentences THEN requests + 1
                     ELSE 1
      out == record_practice(DB, "t2", sentence_id, today)
  IN /\ \/ requests <= FreeDailySentences /\ today = StartDay
        \/ requests = FreeDailySentences + 1 /\ today = StartDay + 1
     /\ requests' = requests + 1
     /\ users' = out.db.users
     /\ sessions' = out.db.sessions
     /\ practice_records' = out.db.practice_records
     /\ daily_streaks' = out.db.daily_streaks
     /\ last' = [op |-> "record_practice", cookie |-> "t2",
                 sentence_id |-> sentence_id, day |-> today,
                 response |-> out.response, pre |-> DB]
     /\ reply' = NoReply
     /\ UNCHANGED <<today, inflight, unique_in_force, payments, posts,
                 post_likes, post_likes_id_seq, issued>>

ScenarioMidnight ==
  /\ requests = FreeDailySentences + 1
  /\ today = StartDay
  /\ today' = today + 1
  /\ UNCHANGED <<users, sessions, practice_records, daily_streaks, requests,
               last, reply, inflight, unique_in_force, payments, posts,
          post_likes, post_likes_id_seq, issued>>

NextScenario == ScenarioRecord \/ ScenarioMidnight

SpecScenario == InitScenario /\ [][NextScenario]_vars

\* Two record_practice requests of user 1 (token t1) on StartDay, served
\* query by query. The stored practice_records table has the unique
\* constraint (created by migrate_db.py) or not (created from the class
\* PracticeRecord).
InitRace ==
  /\ StoredDatabase
  /\ \A r \in practice_records : r.user_id /= 2
  /\ requests = 0
  /\ last = NoCall(DB)
  /\ reply = NoReply
  /\ inflight = [r \in Reqs |-> Idle]
  /\ unique_in_force \in BOOLEAN
  /\ payments = {}
  /\ posts = StoredPosts
  /\ post_likes = {}
  /\ post_likes_id_seq = 0
  /\ issued = Cardinality(StoredSessions)

\* request r comes in; overlaps: another request is being served
Arrive(r, sentence_id) ==
  /\ inflight[r].pc = "idle"
  /\ inflight' =
       [inflight EXCEPT
          ![r] = [Idle EXCEPT
                    !.pc = "auth", !.cookie = "t1",
                    !.sentence_id = sentence_id,
                    !.overlaps =
                      \E o \in Reqs : inflight[o].pc \notin {"idle", "done"}]]
  /\ UNCHANGED <<users, sessions, practice_records, daily_streaks, today,
                 requests, last, reply, unique_in_force, payments, posts,
                 post_likes, post_likes_id_seq, issued>>

\* request r runs up to its next round trip
Step(r) ==
  LET out == request_step(DB, unique_in_force, inflight[r], today)
  IN /\ inflight[r].pc \notin {"idle", "done"}
     /\ users' = out.db.users
     /\ sessions' = out.db.sessions
     /\ practice_records' = out.db.practice_records
     /\ daily_streaks' = out.db.daily_streaks
     /\ inflight' = [inflight EXCEPT ![r] = out.req]
     /\ UNCHANGED <<today, requests, last, reply, unique_in_force, payments,
                    posts, post_likes, post_likes_id_seq, issued>>

NextRace ==
  \E r \in Reqs :
    \/ \E sentence_id \in RequestSentences : Arrive(r, sentence_id)
    \/ Step(r)

SpecRace == InitRace /\ [][NextRace]_vars

-----------------------------------------------------------------------------
(* Payment orders *)

\* days that relativedelta(months=1) adds to a date
MonthDays == 30

\* relativedelta(months=months), in days
relativedelta(months) == months * MonthDays

\* PRICING: the tier and the months of each plan (0 months: lifetime)
PRICING ==
  [basic_monthly |-> [tier |-> "basic", months |-> 1],
   basic_yearly |-> [tier |-> "basic", months |-> 12],
   premium_monthly |-> [tier |-> "premium", months |-> 1],
   premium_yearly |-> [tier |-> "premium", months |-> 12],
   lifetime |-> [tier |-> "lifetime", months |-> 0]]

\* the row create_payment stores for an order of the plan
NewPayment(user_id, order_id, plan_id) ==
  [user_id |-> user_id, order_id |-> order_id,
   subscription_tier |-> PRICING[plan_id].tier,
   months |-> PRICING[plan_id].months, status |-> "pending",
   paid_at |-> NULL]

\* the trade_status values a notification carries
TradeStatuses ==
  {"WAIT_BUYER_PAY", "TRADE_CLOSED", "TRADE_SUCCESS", "TRADE_FINISHED"}

\* payment_notify: the notification of the payment provider for an order
\* (out_trade_no) with a trade_status; the sender is not authenticated
payment_notify(db, order_id, trade_status, now) ==
  LET found == {p \in db.payments : p.order_id = order_id}
  IN IF order_id = NULL \/ found = {}
     THEN [db |-> db, response |-> "fail"]
     ELSE LET payment == CHOOSE p \in found : TRUE
              user == db.users[payment.user_id]
              paid == [payment EXCEPT !.status = "completed",
                                      !.paid_at = now]
              subscribed ==
                IF payment.months = 0
                THEN [user EXCEPT !.lifetime_member = TRUE,
                                  !.subscription_tier = "lifetime"]
                ELSE [user EXCEPT
                        !.subscription_tier = payment.subscription_tier,
                        !.subscription_expires_at =
                          IF user.subscription_expires_at /= NULL
                             /\ user.subscription_expires_at > now
                          THEN user.subscription_expires_at
                                 + relativedelta(payment.months)
                          ELSE now + relativedelta(payment.months)]
          IN IF trade_status \in {"TRADE_SUCCESS", "TRADE_FINISHED"}
             THEN [db |-> [db EXCEPT
                             !.payments = (@ \ {payment}) \cup {paid},
                             !.users[payment.user_id] = subscribed],
                   response |-> "success"]
             ELSE [db |-> db, response |-> "fail"]

\* demo_complete_payment: the logged-in user completes an order of their own
demo_complete_payment(db, cookie, order_id, now) ==
  LET auth == get_current_user(db.sessions, cookie, now)
      db1 == [db EXCEPT !.sessions = auth.sessions]
      found == {p \in db.payments :
                  p.order_id = order_id /\ p.user_id = auth.user_id}
  IN IF auth.user_id = NULL
     THEN [db |-> db1, response |-> [status |-> 401, message |-> "none"]]
     ELSE IF found = {}
     THEN [db |-> db1, response |-> [status |-> 404, message |-> "none"]]
     ELSE LET payment == CHOOSE p \in found : TRUE
              user == db.users[auth.user_id]
              paid == [payment EXCEPT !.status = "completed",
                                      !.paid_at = now]
              subscribed ==
                IF payment.months = 0
                THEN [user EXCEPT !.lifetime_member = TRUE,
                                  !.subscription_tier = "lifetime"]
                ELSE [user EXCEPT
                        !.subscription_tier = payment.subscription_tier,
                        !.subscription_expires_at =
                          IF user.subscription_expires_at /= NULL
                             /\ user.subscription_expires_at > now
                          THEN user.subscription_expires_at
                                 + relativedelta(payment.months)
                          ELSE now + relativedelta(payment.months)]
          IN IF payment.status = "completed"
             THEN [db |-> db1,
                   response |-> [status |-> 200,
                                 message |-> "Payment already completed"]]
             ELSE [db |-> [db1 EXCEPT
                             !.payments = (@ \ {payment}) \cup {paid},
                             !.users[auth.user_id] = subscribed],
                   response |->
                     [status |-> 200,
                      message |-> "Payment completed successfully (DEMO)"]]

\* the orders stored when the run begins: order 1 of user 1 and order 2 of
\* user 2, created and not yet paid
StoredOrders == {1, 2}
\* out_trade_no / order_id of a request: a stored order, an unknown order
\* (3) or none
OrderIds == StoredOrders \cup {3, NULL}

\* the tables the payment handlers work on
DBPay == [users |-> users, sessions |-> sessions, payments |-> payments]

\* User 1 with any of the stored subscriptions and an order for any plan,
\* user 2 on Free with an order for a month of Basic; nobody has practised.
InitPay ==
  /\ today = StartDay
  /\ \E row1 \in UserRows :
       users = [u \in Users |-> IF u = 1 THEN row1
                                ELSE [subscription_tier |-> "free",
                                      subscription_expires_at |-> NULL,
                                      lifetime_member |-> FALSE]]
  /\ sessions = StoredSessions
  /\ practice_records = {}
  /\ daily_streaks = {}
  /\ \E plan_id \in DOMAIN PRICING :
       payments = {NewPayment(1, 1, plan_id),
                   NewPayment(2, 2, "basic_monthly")}
  /\ requests = 0
  /\ last = [op |-> "none", cookie |-> "none", order_id |-> NULL,
             trade_status |-> "none", day |-> 0, response |-> "none",
             pre |-> DBPay]
  /\ reply = NoReply
  /\ inflight = [r \in Reqs |-> Idle]
  /\ unique_in_force = TRUE
  /\ posts = StoredPosts
  /\ post_likes = {}
  /\ post_likes_id_seq = 0
  /\ issued = Cardinality(StoredSessions)

\* POST /api/payment/notify
PaymentNotify(order_id, trade_status) ==
  LET out == payment_notify(DBPay, order_id, trade_status, today)
  IN /\ requests < MaxRequests
     /\ requests' = requests + 1
     /\ users' = out.db.users
     /\ sessions' = out.db.sessions
     /\ payments' = out.db.payments
     /\ last' = [op |-> "payment_notify", cookie |-> "none",
                 order_id |-> order_id, trade_status |-> trade_status,
                 day |-> today, response |-> out.response, pre |-> DBPay]
     /\ UNCHANGED <<practice_records, daily_streaks, today, reply, inflight,
                    unique_in_force, posts, post_likes, post_likes_id_seq,
                    issued>>

\* POST /api/payment/demo-complete/{order_id}
DemoCompletePayment(cookie, order_id) ==
  LET out == demo_complete_payment(DBPay, cookie, order_id, today)
  IN /\ requests < MaxRequests
     /\ order_id /= NULL
     /\ requests' = requests + 1
     /\ users' = out.db.users
     /\ sessions' = out.db.sessions
     /\ payments' = out.db.payments
     /\ last' = [op |-> "demo_complete_payment", cookie |-> cookie,
                 order_id |-> order_id, trade_status |-> "none",
                 day |-> today, response |-> out.response, pre |-> DBPay]
     /\ UNCHANGED <<practice_records, daily_streaks, today, reply, inflight,
                    unique_in_force, posts, post_likes, post_likes_id_seq,
                    issued>>

NextPay ==
  \/ \E order_id \in OrderIds, trade_status \in TradeStatuses :
       PaymentNotify(order_id, trade_status)
  \/ \E cookie \in Cookies, order_id \in OrderIds :
       DemoCompletePayment(cookie, order_id)
  \/ Tick

\* the payment handlers, one request at a time
SpecPay == InitPay /\ [][NextPay]_vars

-----------------------------------------------------------------------------
(* Login sessions *)

\* expires_at = datetime.now() + timedelta(days=7)
SessionDays == 7

\* logins served in a run
MaxLogins == 1

\* secrets.token_urlsafe(32): the tokens of later logins, in the order in
\* which they are drawn; no token is drawn twice
NewTokens == <<"t3", "t4", "t5">>

\* the tokens drawn so far, those of the stored sessions included
IssuedTokens(n) ==
  Tokens \cup {NewTokens[i] : i \in 1 .. n - Cardinality(StoredSessions)}

\* the cookies a request may carry once logins are served
SessionCookies == Cookies \cup {NewTokens[i] : i \in 1 .. Len(NewTokens)}

\* create_session: a session of the user under a fresh token
create_session(sess, session_token, user_id, now) ==
  sess \cup {[token |-> session_token, user_id |-> user_id,
              expires_at |-> now + SessionDays]}

\* Mutant of delete_session: the row is kept.
delete_session_keeps(sess, session_token) == sess

\* delete_session: the row of the token, if there is one, is deleted
delete_session(sess, session_token) ==
  LET found == {x \in sess : x.token = session_token}
  IN IF found = {} THEN sess ELSE sess \ {CHOOSE x \in found : TRUE}

\* logout: the session of the cookie is deleted, if the request has a cookie
logout(sess, cookie) ==
  IF cookie /= "none" THEN delete_session(sess, cookie) ELSE sess

\* profile_page: the page of the logged-in user, or a redirect to /login
\* (user_id NULL)
profile_page(sess, cookie, now) == get_current_user(sess, cookie, now)

\* Two Free users who have not practised, with the stored sessions.
InitSession ==
  /\ today = StartDay
  /\ users = [u \in Users |-> [subscription_tier |-> "free",
                               subscription_expires_at |-> NULL,
                               lifetime_member |-> FALSE]]
  /\ sessions = StoredSessions
  /\ practice_records = {}
  /\ daily_streaks = {}
  /\ requests = 0
  /\ last = [op |-> "none", cookie |-> "none", day |-> 0, user_id |-> NULL,
             pre |-> DB]
  /\ reply = NoReply
  /\ inflight = [r \in Reqs |-> Idle]
  /\ unique_in_force = TRUE
  /\ payments = {}
  /\ posts = StoredPosts
  /\ post_likes = {}
  /\ post_likes_id_seq = 0
  /\ issued = Cardinality(StoredSessions)

\* POST /login with the user's password
Login(user_id) ==
  /\ issued < Cardinality(StoredSessions) + MaxLogins
  /\ issued' = issued + 1
  /\ sessions' =
       create_session(sessions,
                      NewTokens[issued' - Cardinality(StoredSessions)],
                      user_id, today)
  /\ last' = [op |-> "login", cookie |-> "none", day |-> today,
              user_id |-> user_id, pre |-> DB]
  /\ UNCHANGED <<users, practice_records, daily_streaks, today, requests,
                 reply, inflight, unique_in_force, payments, posts,
                 post_likes, post_likes_id_seq>>

\* GET /logout
Logout(cookie) ==
  /\ requests < MaxRequests
  /\ requests' = requests + 1
  /\ sessions' = logout(sessions, cookie)
  /\ last' = [op |-> "logout", cookie |-> cookie, day |-> today,
              user_id |-> NULL, pre |-> DB]
  /\ UNCHANGED <<users, practice_records, daily_streaks, today, reply,
                 inflight, unique_in_force, payments, posts, post_likes,
                 post_likes_id_seq,
                 issued>>

\* GET /profile
ProfilePage(cookie) ==
  LET out == profile_page(sessions, cookie, today)
  IN /\ requests < MaxRequests
     /\ requests' = requests + 1
     /\ sessions' = out.sessions
     /\ last' = [op |-> "profile_page", cookie |-> cookie, day |-> today,
                 user_id |-> out.user_id, pre |-> DB]
     /\ UNCHANGED <<users, practice_records, daily_streaks, today, reply,
                    inflight, unique_in_force, payments, posts, post_likes,
                    post_likes_id_seq,
                    issued>>

NextSession ==
  \/ \E user_id \in Users : Login(user_id)
  \/ \E cookie \in SessionCookies : Logout(cookie)
  \/ \E cookie \in SessionCookies : ProfilePage(cookie)
  \/ Tick

\* logins, logouts and requests that look the session up
SpecSession == InitSession /\ [][NextSession]_vars

-----------------------------------------------------------------------------
(* Likes of community posts *)

\* max(0, n)
max0(n) == IF n > 0 THEN n ELSE 0

\* Mutant of like_post: the counter is left alone when a like is taken back.
like_post_keeps_count(db, cookie, post_id, now) ==
  LET auth == get_current_user(db.sessions, cookie, now)
      db1 == [db EXCEPT !.sessions = auth.sessions]
      found == {p \in db.posts : p.id = post_id}
      existing_likes == {l \in db.post_likes :
                           l.post_id = post_id /\ l.user_id = auth.user_id}
  IN IF auth.user_id = NULL
     THEN [db |-> db1,
           response |-> [status |-> 401, liked |-> FALSE, likes |-> NULL]]
     ELSE IF found = {}
     THEN [db |-> db1,
           response |-> [status |-> 404, liked |-> FALSE, likes |-> NULL]]
     ELSE LET post == CHOOSE p \in found : TRUE
          IN IF existing_likes /= {}
             THEN LET existing_like == CHOOSE l \in existing_likes : TRUE
                  IN [db |-> [db1 EXCEPT !.post_likes = @ \ {existing_like}],
                      response |-> [status |-> 200, liked |-> FALSE,
                                    likes |-> post.likes]]
             ELSE LET new_like == [id |-> db.post_likes_id_seq + 1,
                                   post_id |-> post_id,
                                   user_id |-> auth.user_id]
                      liked == [post EXCEPT !.likes = @ + 1]
                  IN [db |-> [db1 EXCEPT
                                !.post_likes = @ \cup {new_like},
                                !.post_likes_id_seq = @ + 1,
                                !.posts = (@ \ {post}) \cup {liked}],
                      response |-> [status |-> 200, liked |-> TRUE,
                                    likes |-> liked.likes]]

\* Mutant of like_post: a like is added whether or not the user has one.
like_post_always_likes(db, cookie, post_id, now) ==
  LET auth == get_current_user(db.sessions, cookie, now)
      db1 == [db EXCEPT !.sessions = auth.sessions]
      found == {p \in db.posts : p.id = post_id}
  IN IF auth.user_id = NULL
     THEN [db |-> db1,
           response |-> [status |-> 401, liked |-> FALSE, likes |-> NULL]]
     ELSE IF found = {}
     THEN [db |-> db1,
           response |-> [status |-> 404, liked |-> FALSE, likes |-> NULL]]
     ELSE LET post == CHOOSE p \in found : TRUE
              new_like == [id |-> db.post_likes_id_seq + 1,
                           post_id |-> post_id, user_id |-> auth.user_id]
              liked == [post EXCEPT !.likes = @ + 1]
          IN [db |-> [db1 EXCEPT
                        !.post_likes = @ \cup {new_like},
                        !.post_likes_id_seq = @ + 1,
                        !.posts = (@ \ {post}) \cup {liked}],
              response |-> [status |-> 200, liked |-> TRUE,
                            likes |-> liked.likes]]

\* like_post: the logged-in user likes the post, or takes their like back
like_post(db, cookie, post_id, now) ==
  LET auth == get_current_user(db.sessions, cookie, now)
      db1 == [db EXCEPT !.sessions = auth.sessions]
      found == {p \in db.posts : p.id = post_id}
      existing_likes == {l \in db.post_likes :
                           l.post_id = post_id /\ l.user_id = auth.user_id}
  IN IF auth.user_id = NULL
     THEN [db |-> db1,
           response |-> [status |-> 401, liked |-> FALSE, likes |-> NULL]]
     ELSE IF found = {}
     THEN [db |-> db1,
           response |-> [status |-> 404, liked |-> FALSE, likes |-> NULL]]
     ELSE LET post == CHOOSE p \in found : TRUE
          IN IF existing_likes /= {}
             THEN LET existing_like == CHOOSE l \in existing_likes : TRUE
                      unliked == [post EXCEPT !.likes = max0(@ - 1)]
                  IN [db |-> [db1 EXCEPT
                                !.post_likes = @ \ {existing_like},
                                !.posts = (@ \ {post}) \cup {unliked}],
                      response |-> [status |-> 200, liked |-> FALSE,
                                    likes |-> unliked.likes]]
             ELSE LET new_like == [id |-> db.post_likes_id_seq + 1,
                                   post_id |-> post_id,
                                   user_id |-> auth.user_id]
                      liked == [post EXCEPT !.likes = @ + 1]
                  IN [db |-> [db1 EXCEPT
                                !.post_likes = @ \cup {new_like},
                                !.post_likes_id_seq = @ + 1,
                                !.posts = (@ \ {post}) \cup {liked}],
                      response |-> [status |-> 200, liked |-> TRUE,
                                    likes |-> liked.likes]]

\* the posts of the community page, and the post_id values of the requests
\* (3: no such post)
PostIds == {1, 2}
RequestPosts == PostIds \cup {3}

\* the tables like_post works on
DBLike ==
  [users |-> users, sessions |-> sessions, posts |-> posts,
   post_likes |-> post_likes, post_likes_id_seq |-> post_likes_id_seq]

\* the id under which the like of the user for the post was stored
StoredLikeId(post_id, user_id) == (post_id - 1) * Cardinality(Users) + user_id

\* Two posts of user 2 and the likes given before the run begins, each by a
\* like_post call: any of the users may like any of the posts, and a post's
\* counter is the number of its likes.
InitLike ==
  /\ today = StartDay
  /\ users = [u \in Users |-> [subscription_tier |-> "free",
                               subscription_expires_at |-> NULL,
                               lifetime_member |-> FALSE]]
  /\ sessions = StoredSessions
  /\ practice_records = {}
  /\ daily_streaks = {}
  /\ \E given \in SUBSET (PostIds \X Users) :
       /\ post_likes = {[id |-> StoredLikeId(g[1], g[2]), post_id |-> g[1],
                         user_id |-> g[2]] : g \in given}
       /\ posts = {[id |-> p, author_id |-> 2,
                    likes |-> Cardinality({g \in given : g[1] = p})] :
                     p \in PostIds}
  /\ post_likes_id_seq = Cardinality(PostIds) * Cardinality(Users)
  /\ requests = 0
  /\ last = [op |-> "none", cookie |-> "none", post_id |-> 0, day |-> 0,
             response |-> [status |-> 0, liked |-> FALSE, likes |-> NULL],
             pre |-> DBLike]
  /\ reply = NoReply
  /\ inflight = [r \in Reqs |-> Idle]
  /\ unique_in_force = TRUE
  /\ payments = {}
  /\ issued = Cardinality(StoredSessions)

\* POST /api/posts/{post_id}/like
LikePost(cookie, post_id) ==
  LET out == like_post(DBLike, cookie, post_id, today)
  IN /\ requests < MaxRequests
     /\ requests' = requests + 1
     /\ sessions' = out.db.sessions
     /\ posts' = out.db.posts
     /\ post_likes' = out.db.post_likes
     /\ post_likes_id_seq' = out.db.post_likes_id_seq
     /\ last' = [op |-> "like_post", cookie |-> cookie, post_id |-> post_id,
                 day |-> today, response |-> out.response, pre |-> DBLike]
     /\ UNCHANGED <<users, practice_records, daily_streaks, today, reply,
                    inflight, unique_in_force, payments, issued>>

NextLike ==
  \/ \E cookie \in Cookies, post_id \in RequestPosts :
       LikePost(cookie, post_id)
  \/ Tick

\* like_post, one request at a time
SpecLike == InitLike /\ [][NextLike]_vars

-----------------------------------------------------------------------------
(* What the last request was, read off the state *)

\* the last request was a record_practice call
Called == last.op = "record_practice"

\* the user the last request was made as (NULL: not logged in)
Caller == get_current_user(last.pre.sessions, last.cookie, last.day).user_id

\* the caller's effective tier and its quota when the last request came in
CallerTier == current_tier(last.pre.users[Caller], last.day)
CallerQuota == SUBSCRIPTION_LIMITS[CallerTier].daily_sentences

RecordsOf(records, user_id, day) ==
  {r \in records : r.user_id = user_id /\ r.practice_date = day}

RecordsFor(records, user_id, sentence_id, day) ==
  {r \in RecordsOf(records, user_id, day) : r.sentence_id = sentence_id}

\* the caller was under quota when the last request came in
UnderQuota ==
  \/ CallerQuota = Unlimited
  \/ Cardinality(RecordsOf(last.pre.practice_records, Caller, last.day))
       < CallerQuota

\* the last request was made by a logged-in user for a sentence that had no
\* record for (user, sentence, day)
CalledNew ==
  /\ Called
  /\ Caller /= NULL
  /\ RecordsFor(last.pre.practice_records, Caller, last.sentence_id,
                last.day) = {}

\* the last request was made by a logged-in user for a sentence that already
\* had a record for (user, sentence, day)
CalledRepeat ==
  /\ Called
  /\ Caller /= NULL
  /\ RecordsFor(last.pre.practice_records, Caller, last.sentence_id,
                last.day) /= {}

\* the user's streak row, all zero with no date when the row is absent
StreakOf(streaks, user_id) ==
  IF \E s \in streaks : s.user_id = user_id
  THEN CHOOSE s \in streaks : s.user_id = user_id
  ELSE [user_id |-> user_id, current_streak |-> 0, longest_streak |-> 0,
        last_practice_date |-> NULL, total_practice_days |-> 0,
        total_sentences_practiced |-> 0]

HasStreak(streaks, user_id) == \E s \in streaks : s.user_id = user_id

\* the persistent state is what it was before the last request
Untouched == DB = last.pre

-----------------------------------------------------------------------------
(* Claims *)

\* C1: for a user with no DailyStreak row and no PracticeRecord, the first
\* record_practice call (logged in, under quota) leaves currentStreak = 1,
\* longestStreak = 1, totalPracticeDays = 1, totalSentencesPracticed = 1 and
\* lastPracticeDate = today; the new streak row starts with all counters zero.
C1_FirstPractice ==
  (/\ CalledNew
   /\ UnderQuota
   /\ ~HasStreak(last.pre.daily_streaks, Caller)
   /\ \A r \in last.pre.practice_records : r.user_id /= Caller)
  => /\ NewDailyStreak(Caller).current_streak = 0
     /\ NewDailyStreak(Caller).longest_streak = 0
     /\ NewDailyStreak(Caller).total_practice_days = 0
     /\ NewDailyStreak(Caller).total_sentences_practiced = 0
     /\ HasStreak(daily_streaks, Caller)
     /\ StreakOf(daily_streaks, Caller) =
          [user_id |-> Caller, current_streak |-> 1, longest_streak |-> 1,
           last_practice_date |-> last.day, total_practice_days |-> 1,
           total_sentences_practiced |-> 1]

\* C2: a record_practice call of a logged-in user under quota, for a sentence
\* with no record for (user, sentence, today), answers 200 and has inserted
\* exactly one record, for (user, sentence, today); it never ends in an error.
C2_NewSentenceRecorded ==
  (CalledNew /\ UnderQuota)
  => /\ last.response.status = 200
     /\ \E r \in practice_records :
          /\ r \notin last.pre.practice_records
          /\ r.user_id = Caller
          /\ r.sentence_id = last.sentence_id
          /\ r.practice_date = last.day
          /\ practice_records = last.pre.practice_records \cup {r}

\* the step is a second record_practice call that follows a first one, both
\* by the same logged-in user on the same day
SecondCall ==
  /\ Called
  /\ last'.op = "record_practice"
  /\ requests' = requests + 1
  /\ last'.cookie = last.cookie
  /\ last'.day = last.day
  /\ Caller /= NULL
  /\ get_current_user(last'.pre.sessions, last'.cookie, last'.day).user_id
       = Caller

\* C3: calling record_practice twice for the same (user, sentence) on the same
\* day is idempotent: after the second call there is exactly one record for
\* (user, sentence, day), and the second call changes no field of the user's
\* DailyStreak and writes nothing else.
C3_RepeatIdempotent ==
  [][(/\ SecondCall
      /\ last'.sentence_id = last.sentence_id
      /\ UnderQuota)
     => /\ Cardinality(RecordsFor(practice_records', Caller, last.sentence_id,
                                  last.day)) = 1
        /\ practice_records' = practice_records
        /\ daily_streaks' = daily_streaks
        /\ users' = users
        /\ sessions' = sessions]_vars

\* C4: when a user records two different sentences on the same day,
\* totalSentencesPracticed grows by 2 in total and totalPracticeDays by at
\* most 1, on the first call; the second call leaves totalPracticeDays,
\* currentStreak, longestStreak and lastPracticeDate unchanged.
C4_TwoSentencesOneDay ==
  [][(/\ SecondCall
      /\ last'.sentence_id /= last.sentence_id
      /\ RecordsFor(last.pre.practice_records, Caller, last.sentence_id,
                    last.day) = {}
      /\ RecordsFor(last.pre.practice_records, Caller, last'.sentence_id,
                    last.day) = {}
      /\ \/ CallerQuota = Unlimited
         \/ Cardinality(RecordsOf(last.pre.practice_records, Caller, last.day))
              + 2 <= CallerQuota)
     => LET before == StreakOf(last.pre.daily_streaks, Caller)
            between == StreakOf(daily_streaks, Caller)
            after == StreakOf(daily_streaks', Caller)
        IN /\ after.total_sentences_practiced
                = before.total_sentences_practiced + 2
           /\ after.total_practice_days = between.total_practice_days
           /\ after.total_practice_days <= before.total_practice_days + 1
           /\ after.current_streak = between.current_streak
           /\ after.longest_streak = between.longest_streak
           /\ after.last_practice_date = between.last_practice_date]_vars

FreeAtQuota ==
  /\ CalledNew
  /\ CallerTier = "free"
  /\ Cardinality(RecordsOf(last.pre.practice_records, Caller, last.day))
       = FreeDailySentences

\* C6: a Free user who already has exactly 10 records for today is rejected
\* on the next call for a sentence not yet practiced today: 403 with
\* limit_reached = true and daily_limit = 10.
C6_FreeQuotaRejects ==
  FreeAtQuota
  => /\ last.response.status = 403
     /\ last.response.limit_reached = TRUE
     /\ last.response.daily_limit = FreeDailySentences

C6_Witness ==
  /\ FreeAtQuota
  /\ last.response = Response(403, TRUE, 10)

\* C7: a call rejected with quota-exceeded writes no PracticeRecord and
\* neither creates nor modifies the DailyStreak: the persistent state after
\* the call equals the state before it.
C7_RejectionWritesNothing ==
  (Called /\ last.response.status = 403) => Untouched

C7_Witness ==
  /\ Called
  /\ last.response.status = 403
  /\ HasStreak(last.pre.daily_streaks, Caller)
  /\ Untouched

\* C8 as stated: a call for a (user, sentence, today) that already has a
\* record is never an error: in every state, at quota too, it answers 200 and
\* is a no-op.
C8_RepeatNeverAnError ==
  CalledRepeat => (last.response.status = 200 /\ Untouched)

\* C8 as amended: such a call answers 200 and is a no-op while the user is
\* under quota (or has no quota); once the finite quota is reached it is
\* rejected with 403 like every other call, and still writes nothing.
C8_RepeatUnderQuota ==
  CalledRepeat
  => /\ Untouched
     /\ UnderQuota => last.response.status = 200
     /\ ~UnderQuota => last.response = Response(403, TRUE, CallerQuota)

C8_Witness ==
  /\ CalledRepeat
  /\ UnderQuota
  /\ last.response.status = 200
  /\ Untouched

\* C9: a user whose effective tier is Premium or Lifetime never receives
\* quota-exceeded, however many records they have for today.
C9_UnlimitedNeverRejected ==
  (Called /\ Caller /= NULL /\ CallerTier \in {"premium", "lifetime"})
  => last.response.status /= 403

C9_Witness ==
  /\ Called
  /\ Caller /= NULL
  /\ CallerTier \in {"premium", "lifetime"}
  /\ Cardinality(RecordsOf(last.pre.practice_records, Caller, last.day))
       > BasicDailySentences
  /\ last.response.status /= 403

CallerCountBefore ==
  Cardinality(RecordsOf(last.pre.practice_records, Caller, last.day))
CallerCountNow == Cardinality(RecordsOf(practice_records, Caller, last.day))

CalledAny ==
  last.op \in {"record_practice", "get_practice_stats", "get_practice_history"}

\* C17 as stated: a practice request that resolves to no logged-in user (no
\* cookie, unknown token or expired session token) is answered 401 and no row
\* of any table is inserted, changed or deleted.
C17_UnauthenticatedNoEffect ==
  (CalledAny /\ Caller = NULL)
  => (last.response.status = 401 /\ Untouched)

\* the session rows of the request's token that had run out when it came in
ExpiredOfCookie ==
  {x \in last.pre.sessions :
     x.token = last.cookie /\ x.expires_at <= last.day}

\* C17 as amended: such a request is answered 401 and leaves users,
\* practice_records and daily_streaks as they were; of sessions it deletes the
\* expired row of the token it presented, and nothing else.
C17_UnauthenticatedOnlyPurges ==
  (CalledAny /\ Caller = NULL)
  => /\ last.response.status = 401
     /\ users = last.pre.users
     /\ practice_records = last.pre.practice_records
     /\ daily_streaks = last.pre.daily_streaks
     /\ sessions = last.pre.sessions \ ExpiredOfCookie

C17_Witness ==
  /\ last.op = "get_practice_history"
  /\ Caller = NULL
  /\ ExpiredOfCookie /= {}
  /\ last.response.status = 401
  /\ sessions = last.pre.sessions \ ExpiredOfCookie

\* the last request was a get_practice_stats call that was answered
GotStats == last.op = "get_practice_stats" /\ last.response.status = 200

\* C19: get_practice_stats returns a last_7_days list of exactly 7 entries,
\* for the days today-6 .. today in ascending order; the count of each entry
\* is the number of the user's records of exactly that date, zero for a day
\* without any.
C19_SevenDays ==
  GotStats
  => /\ Len(reply.last_7_days) = 7
     /\ \A k \in 1 .. 7 :
          /\ reply.last_7_days[k].date = str(last.day - 7 + k)
          /\ reply.last_7_days[k].count =
               Cardinality(RecordsOf(last.pre.practice_records, Caller,
                                     last.day - 7 + k))

\* a user with records on some of the seven days and none on others
C19_Witness ==
  /\ GotStats
  /\ Len(reply.last_7_days) = 7
  /\ reply.last_7_days[1].count = 0
  /\ reply.last_7_days[6].count = 1
  /\ reply.last_7_days[7].count = FreeDailySentences - 1

\* the last request was a get_practice_history call that was answered
GotHistory == last.op = "get_practice_history" /\ last.response.status = 200

\* the caller's records the history request asked for: those with
\* practice_date >= today - (days - 1)
Asked ==
  {r \in last.pre.practice_records :
     /\ r.user_id = Caller
     /\ r.practice_date >= last.day - (last.days - 1)}

\* C20: get_practice_history(days) returns exactly the user's records with
\* practice_date >= today - (days-1), grouped by date: every date appears at
\* most once, a date appears only if it has a record, and the count of each
\* group is the number of records of its date and the length of its
\* sentence_ids list.
C20_HistoryGroups ==
  GotHistory
  => LET history == reply.history
         groups == 1 .. Len(history)
     IN /\ \A i, j \in groups :
             history[i].date = history[j].date => i = j
        /\ {history[i].date : i \in groups}
             = {str(r.practice_date) : r \in Asked}
        /\ \A i \in groups :
             LET rows == {r \in Asked :
                            str(r.practice_date) = history[i].date}
             IN /\ history[i].count = Cardinality(rows)
                /\ Len(history[i].sentence_ids) = history[i].count
                /\ {history[i].sentence_ids[n] :
                      n \in 1 .. Len(history[i].sentence_ids)}
                     = {r.sentence_id : r \in rows}

\* a window that holds some of the user's days and leaves one out
C20_Witness ==
  /\ GotHistory
  /\ Len(reply.history) = 2
  /\ \E i \in 1 .. 2 : reply.history[i].count > 1
  /\ \E r \in last.pre.practice_records :
       r.user_id = Caller /\ r \notin Asked

\* C18: a Free user with no prior activity records sentences 1 .. 10 on day D:
\* all ten succeed, with streak 1; sentence 11 on day D is rejected with
\* daily_limit = 10; on day D+1 sentence 1 succeeds and leaves
\* currentStreak = 2, totalPracticeDays = 2, totalSentencesPracticed = 11.
C18_QuotaPerDay ==
  LET streak == StreakOf(daily_streaks, 2)
  IN /\ requests \in 1 .. FreeDailySentences
          => /\ last.response.status = 200
             /\ today_count(practice_records, 2, StartDay) = requests
             /\ streak.current_streak = 1
     /\ (requests = FreeDailySentences + 1 /\ today = StartDay)
          => last.response = Response(403, TRUE, FreeDailySentences)
     /\ requests = FreeDailySentences + 2
          => /\ last.response.status = 200
             /\ streak.current_streak = 2
             /\ streak.total_practice_days = 2
             /\ streak.total_sentences_practiced = FreeDailySentences + 1

-----------------------------------------------------------------------------
(* Claims about requests in flight together (SpecRace) *)

\* the two requests were in flight together and both have been answered
RaceOver ==
  /\ \A r \in Reqs : inflight[r].pc = "done"
  /\ \E r \in Reqs : inflight[r].overlaps
  /\ inflight[1].user_id /= NULL
  /\ inflight[2].user_id = inflight[1].user_id

\* the user of the two requests, and the database before them
Racer == inflight[1].user_id
Before == last.pre

RacerQuota ==
  SUBSCRIPTION_LIMITS[current_tier(Before.users[Racer], today)].daily_sentences

-----------------------------------------------------------------------------
(* Claims about the counters of the streak row *)

\* the calendar days on which the user has a record
DaysOf(records, user_id) ==
  {r.practice_date : r \in {x \in records : x.user_id = user_id}}

OwnRows(db, user_id) ==
  [db EXCEPT !.practice_records = {r \in @ : r.user_id = user_id},
             !.daily_streaks = {s \in @ : s.user_id = user_id}]

-----------------------------------------------------------------------------
(* Claims about the tier *)

\* the caller's row in users when the last request came in
CallerRow == last.pre.users[Caller]

\* the tier as the claim resolves it
ResolvedTier ==
  IF CallerRow.lifetime_member THEN "lifetime"
  ELSE IF /\ CallerRow.subscription_expires_at /= NULL
          /\ CallerRow.subscription_expires_at > last.day
       THEN CallerRow.subscription_tier
       ELSE "free"

ResolvedQuota == SUBSCRIPTION_LIMITS[ResolvedTier].daily_sentences

\* C24: record_practice applies the quota of the tier resolved as: lifetime
\* if lifetime_member is set; otherwise the stored subscription_tier if
\* subscription_expires_at is set and later than now; otherwise free. A user
\* whose paid subscription has expired, or has no expiry set, is rejected at
\* 10 records for the day.
C24_EffectiveTier ==
  (Called /\ Caller /= NULL)
  => /\ (ResolvedQuota /= Unlimited /\ CallerCountBefore >= ResolvedQuota)
          => last.response = Response(403, TRUE, ResolvedQuota)
     /\ (ResolvedQuota = Unlimited \/ CallerCountBefore < ResolvedQuota)
          => last.response.status /= 403

\* the paid tier of the caller has expired, or has no expiry, and the caller
\* is stopped at the Free quota
C24_Witness ==
  /\ Called
  /\ Caller /= NULL
  /\ ~CallerRow.lifetime_member
  /\ CallerRow.subscription_tier \in {"basic", "premium"}
  /\ CallerCountBefore = FreeDailySentences
  /\ last.response = Response(403, TRUE, FreeDailySentences)

-----------------------------------------------------------------------------
(* Claims about a clock that runs backward (SpecSkew) *)

\* C25: a record_practice call with today earlier than the user's
\* lastPracticeDate, for a sentence not yet recorded on that day, is not
\* rejected: it inserts the record, adds 1 to totalSentencesPracticed and to
\* totalPracticeDays, leaves currentStreak and longestStreak unchanged and
\* moves lastPracticeDate back to today.
C25_NegativeGap ==
  (/\ CalledNew
   /\ UnderQuota
   /\ HasStreak(last.pre.daily_streaks, Caller)
   /\ StreakOf(last.pre.daily_streaks, Caller).last_practice_date > last.day)
  => LET before == StreakOf(last.pre.daily_streaks, Caller)
         after == StreakOf(daily_streaks, Caller)
     IN /\ last.response.status = 200
        /\ Cardinality(RecordsFor(practice_records, Caller, last.sentence_id,
                                  last.day)) = 1
        /\ after.total_sentences_practiced
             = before.total_sentences_practiced + 1
        /\ after.total_practice_days = before.total_practice_days + 1
        /\ after.current_streak = before.current_streak
        /\ after.longest_streak = before.longest_streak
        /\ after.last_practice_date = last.day

-----------------------------------------------------------------------------
(* Claims about payment orders (SpecPay) *)

\* the order of the last payment request as it was stored when the request
\* came in (the empty set: no such order)
OrderBefore == {p \in last.pre.payments : p.order_id = last.order_id}

\* the last request delivered the completion of a stored order: a
\* notification of success, or demo_complete_payment called by its owner
Delivered ==
  /\ OrderBefore /= {}
  /\ \/ /\ last.op = "payment_notify"
        /\ last.trade_status \in {"TRADE_SUCCESS", "TRADE_FINISHED"}
     \/ /\ last.op = "demo_complete_payment"
        /\ \E p \in OrderBefore :
             p.user_id = get_current_user(last.pre.sessions, last.cookie,
                                          last.day).user_id

\* C27: an order grants its subscription once. When the completion of an
\* order that is already COMPLETED is delivered again, by a success
\* notification to payment_notify or by demo_complete_payment, the
\* subscription_expires_at of the order's user is left as it was and the
\* order is still COMPLETED.
C27_GrantedOnce ==
  (Delivered /\ \A p \in OrderBefore : p.status = "completed")
  => \A p \in OrderBefore :
       /\ users[p.user_id].subscription_expires_at
            = last.pre.users[p.user_id].subscription_expires_at
       /\ \E q \in payments :
            q.order_id = p.order_id /\ q.status = "completed"

-----------------------------------------------------------------------------
(* Claims about login sessions (SpecSession) *)

\* the session rows of a token
RowsOf(sess, session_token) == {x \in sess : x.token = session_token}

\* C28: a token authenticates only while its session row exists and has not
\* expired. A lookup returns a user only if the row of the cookie was stored
\* with expires_at later than now, and then that row's user; a lookup that
\* finds the row expired deletes it; after a logout the row of the cookie is
\* gone; and the row of a token that has been drawn and has no row is never
\* stored again, so that every later lookup with it returns no user.
C28_TokenLifetime ==
  [][/\ (last'.op = "profile_page" /\ last'.user_id /= NULL)
          => \E x \in RowsOf(sessions, last'.cookie) :
               x.expires_at > today /\ x.user_id = last'.user_id
     /\ (last'.op = "profile_page"
           /\ \E x \in RowsOf(sessions, last'.cookie) : x.expires_at <= today)
          => /\ RowsOf(sessions', last'.cookie) = {}
             /\ last'.user_id = NULL
     /\ last'.op = "logout" => RowsOf(sessions', last'.cookie) = {}
     /\ \A t \in IssuedTokens(issued) :
          RowsOf(sessions, t) = {}
            => /\ RowsOf(sessions', t) = {}
               /\ (last'.op = "profile_page" /\ last'.cookie = t)
                    => last'.user_id = NULL]_vars

\* a lookup with the token of a session that was logged out before it
\* expired finds no user
C28_Witness ==
  /\ last.op = "profile_page"
  /\ last.cookie = "t2"
  /\ RowsOf(last.pre.sessions, "t2") = {}
  /\ last.user_id = NULL

-----------------------------------------------------------------------------
(* Claims about likes (SpecLike) *)

\* the user a like_post call was made as (NULL: not logged in)
Liker(call) ==
  get_current_user(call.pre.sessions, call.cookie, call.day).user_id

\* who likes what
Pairs(likes) == {<<l.post_id, l.user_id>> : l \in likes}

C30_LikesWellFormed ==
  /\ \A p \in posts : p.likes >= 0
  /\ \A p \in PostIds, u \in Users :
       Cardinality({l \in post_likes : l.post_id = p /\ l.user_id = u}) <= 1

\* two like_post calls have been served, the second of them a like that
\* brought a post to two likes
C30_Witness ==
  /\ requests = 2
  /\ last.op = "like_post"
  /\ last.response.status = 200
  /\ last.response.liked
  /\ last.response.likes = 2
  /\ last.pre.post_likes_id_seq > Cardinality(PostIds) * Cardinality(Users)

====
